---------------------------- MODULE Spec2Model ----------------------------
(***************************************************************************)
(* Model of hummingbot/connector/exchange/openware/openware_utils.py:      *)
(* the trading-pair symbol codec, the client order id generator and the    *)
(* HTTP response normalizer aiohttp_response_with_errors.                  *)
(*                                                                         *)
(* Python strings are sequences of one-character strings.  Optional and    *)
(* dynamically typed values are tagged records ([kind |-> ...]).           *)
(***************************************************************************)
EXTENDS Integers, Sequences, FiniteSets, TLC

VARIABLES
    \* symbol codec: the last call, its argument and its result
    codec_op, codec_arg, codec_res,
    \* order ids: the nonce source, the last call's arguments, the ids returned
    nonce, id_call, ids,
    \* response normalizer: position, the response the transport delivers,
    \* the routine's locals, the scoped resource, what the caller sees
    pc, resp, http_status, parsed_response, request_errors,
    acquired, released, faults, raised, ret

codec_vars == <<codec_op, codec_arg, codec_res>>
id_vars == <<nonce, id_call, ids>>
http_vars == <<pc, resp, http_status, parsed_response, request_errors,
               acquired, released, faults, raised, ret>>
vars == <<codec_op, codec_arg, codec_res, nonce, id_call, ids,
          pc, resp, http_status, parsed_response, request_errors,
          acquired, released, faults, raised, ret>>

----------------------------------------------------------------------------
(* Bounds of the model *)

MaxSymLen == 4      \* longest exchange symbol handed to the codec
MaxAssetLen == 3    \* longest asset code of a canonical pair handed to the codec
MaxCalls == 3       \* calls of get_new_client_order_id in one run
MaxNonce == 11      \* cap of the nonce source
MaxRawLen == 100    \* longest raw body the transport delivers

----------------------------------------------------------------------------
(* Python values *)

None == [kind |-> "None"]
PyStr(s) == [kind |-> "str", text |-> s]
PyInt(n) == [kind |-> "int", val |-> n]
PyTuple2(a, b) == [kind |-> "tuple", fst |-> a, snd |-> b]
PyDict(ks) == [kind |-> "dict", keys |-> ks]
PyList(xs) == [kind |-> "list", items |-> xs]
PyRaise(e) == [kind |-> "raise", exc |-> e]

LowerChars == <<"a", "b", "c", "d", "e", "h", "s", "t", "u">>
UpperChars == <<"A", "B", "C", "D", "E", "H", "S", "T", "U">>
DigitChars == <<"0", "1", "2", "3", "4", "5", "6", "7", "8", "9">>

Range(f) == {f[i] : i \in DOMAIN f}
IndexOf(c, seq) == CHOOSE i \in DOMAIN seq : seq[i] = c

\* str.upper() and str.lower(), character by character
UpperChar(c) == IF c \in Range(LowerChars) THEN UpperChars[IndexOf(c, LowerChars)] ELSE c
LowerChar(c) == IF c \in Range(UpperChars) THEN LowerChars[IndexOf(c, UpperChars)] ELSE c
str_upper(s) == [i \in 1..Len(s) |-> UpperChar(s[i])]
str_lower(s) == [i \in 1..Len(s) |-> LowerChar(s[i])]

\* s.replace(c, "") for a one-character c
RECURSIVE str_remove(_, _)
str_remove(s, c) ==
    IF s = <<>> THEN <<>>
    ELSE IF Head(s) = c THEN str_remove(Tail(s), c)
    ELSE <<Head(s)>> \o str_remove(Tail(s), c)

\* s.split(c) for a one-character c: the list of the segments between the c's
RECURSIVE str_split(_, _)
str_split(s, c) ==
    IF \A i \in 1..Len(s) : s[i] # c THEN <<s>>
    ELSE LET k == CHOOSE i \in 1..Len(s) :
                      s[i] = c /\ \A j \in 1..(i - 1) : s[j] # c
         IN <<SubSeq(s, 1, k - 1)>> \o str_split(SubSeq(s, k + 1, Len(s)), c)

\* s[0:n]: the slice stops at the end of a shorter string
PySliceTo(s, n) == SubSeq(s, 1, IF Len(s) < n THEN Len(s) ELSE n)

\* s[-1]; IndexError on the empty string
PyLast(s) == s[Len(s)]

\* all strings over chars of length at most n
RECURSIVE StringsUpTo(_, _)
StringsUpTo(chars, n) ==
    IF n = 0 THEN {<<>>}
    ELSE LET shorter == StringsUpTo(chars, n - 1)
         IN shorter \cup {Append(s, c) : s \in shorter, c \in chars}

----------------------------------------------------------------------------
(* Symbol codec *)

\* Constants.TRADING_PAIR_SPLITTER, of the form ^(\w+)(q1|q2|...)$ : a base of
\* word characters followed by one of the listed quote assets.
QuoteAlternatives == {<<"a", "b">>, <<"c">>}

IsWordChar(c) == c \in Range(LowerChars) \cup Range(UpperChars) \cup Range(DigitChars) \cup {"_"}

\* TRADING_PAIR_SPLITTER.match(s): None, or the two captured groups.  The
\* greedy \w+ takes the longest base that leaves one of the alternatives.
SplitterMatch(s) ==
    LET cuts == {k \in 1..(Len(s) - 1) :
                    /\ \A i \in 1..k : IsWordChar(s[i])
                    /\ SubSeq(s, k + 1, Len(s)) \in QuoteAlternatives}
    IN IF cuts = {} THEN None
       ELSE LET k == CHOOSE c \in cuts : \A d \in cuts : d <= c
            IN PyTuple2(SubSeq(s, 1, k), SubSeq(s, k + 1, Len(s)))

\* the try block of split_trading_pair: m.group on None raises AttributeError
split_trading_pair_try(trading_pair) ==
    LET m == SplitterMatch(trading_pair)
    IN IF m = None THEN PyRaise("AttributeError") ELSE PyTuple2(m.fst, m.snd)

split_uncaught(trading_pair) == split_trading_pair_try(trading_pair)

split_trading_pair(trading_pair) ==
    LET r == split_trading_pair_try(trading_pair)
    IN IF r.kind = "raise" THEN None ELSE r

convert_from_exchange_trading_pair(ex_trading_pair) ==
    LET regex_match == split_trading_pair(ex_trading_pair)
    IN IF regex_match = None THEN None
       ELSE LET again == split_trading_pair(ex_trading_pair)
            IN IF again = None THEN PyRaise("TypeError")
               ELSE PyStr(str_upper(again.fst) \o <<"-">> \o str_upper(again.snd))

to_no_lower(hb_trading_pair) == PyStr(str_remove(hb_trading_pair, "-"))

convert_to_exchange_trading_pair(hb_trading_pair) ==
    PyStr(str_lower(str_remove(hb_trading_pair, "-")))

CodecChars == {"a", "b", "c", "A", "-"}
ExchangeSymbols == StringsUpTo(CodecChars, MaxSymLen)
AssetCodes == StringsUpTo({"A", "B", "C"}, MaxAssetLen) \ {<<>>}
CanonicalPairs == {b \o <<"-">> \o q : b \in AssetCodes, q \in AssetCodes}

\* no codec call is in progress and none is to be made
CodecIdle ==
    /\ codec_op = "init"
    /\ codec_arg = <<>>
    /\ codec_res = None

\* the argument of the call to come: an exchange symbol or a canonical pair
CodecInit ==
    /\ codec_op = "init"
    /\ codec_arg \in ExchangeSymbols \cup CanonicalPairs
    /\ codec_res = None

CallSplit ==
    /\ codec_op = "init"
    /\ codec_arg \in ExchangeSymbols
    /\ codec_op' = "split"
    /\ codec_res' = split_trading_pair(codec_arg)
    /\ UNCHANGED <<codec_arg, id_vars, http_vars>>

CallConvertFrom ==
    /\ codec_op = "init"
    /\ codec_arg \in ExchangeSymbols
    /\ codec_op' = "from"
    /\ codec_res' = convert_from_exchange_trading_pair(codec_arg)
    /\ UNCHANGED <<codec_arg, id_vars, http_vars>>

CallConvertTo ==
    /\ codec_op = "init"
    /\ codec_arg \in CanonicalPairs
    /\ codec_op' = "to"
    /\ codec_res' = convert_to_exchange_trading_pair(codec_arg)
    /\ UNCHANGED <<codec_arg, id_vars, http_vars>>

\* the exchange symbol just produced is converted back
CallConvertBack ==
    /\ codec_op = "to"
    /\ codec_op' = "to_from"
    /\ codec_res' = convert_from_exchange_trading_pair(codec_res.text)
    /\ UNCHANGED <<codec_arg, id_vars, http_vars>>

NextCodec == CallSplit \/ CallConvertFrom \/ CallConvertTo \/ CallConvertBack

----------------------------------------------------------------------------
(* Order id generator *)

BASE_HEAD == 4      \* base[0:4]
QUOTE_HEAD == 2     \* quote[0:2]
NonceStart == 7     \* last nonce handed out before the run

\* Constants.HBOT_BROKER_ID, the broker prefix
HBOT_BROKER_ID == <<"H", "B", "O", "T">>

\* str(n) of a non-negative integer
RECURSIVE DecStr(_)
DecStr(n) ==
    IF n < 10 THEN <<DigitChars[n + 1]>>
    ELSE DecStr(n \div 10) \o <<DigitChars[(n % 10) + 1]>>

\* get_tracking_nonce(): a value above every value handed out before
TrackingNonces == {n \in (nonce + 1)..MaxNonce : TRUE}

id_without_nonce(is_buy, trading_pair, n) ==
    LET side == IF is_buy THEN "B" ELSE "S"
        symbols == str_split(trading_pair, "-")
        base == str_upper(symbols[1])
        quote == str_upper(symbols[2])
    IN HBOT_BROKER_ID \o <<"-", side>>
           \o PySliceTo(base, BASE_HEAD) \o <<PyLast(base)>>
           \o PySliceTo(quote, QUOTE_HEAD) \o <<PyLast(quote)>>

id_quote_head_only(is_buy, trading_pair, n) ==
    LET side == IF is_buy THEN "B" ELSE "S"
        symbols == str_split(trading_pair, "-")
        base == str_upper(symbols[1])
        quote == str_upper(symbols[2])
    IN HBOT_BROKER_ID \o <<"-", side>>
           \o PySliceTo(base, BASE_HEAD) \o <<PyLast(base)>>
           \o PySliceTo(quote, QUOTE_HEAD)
           \o DecStr(n)

\* n is the nonce the call draws from get_tracking_nonce()
get_new_client_order_id(is_buy, trading_pair, n) ==
    LET side == IF is_buy THEN "B" ELSE "S"
        symbols == str_split(trading_pair, "-")
        base == str_upper(symbols[1])
        quote == str_upper(symbols[2])
        base_str == PySliceTo(base, BASE_HEAD) \o <<PyLast(base)>>
        quote_str == PySliceTo(quote, QUOTE_HEAD) \o <<PyLast(quote)>>
    IN HBOT_BROKER_ID \o <<"-", side>> \o base_str \o quote_str \o DecStr(n)

ETH_BTC == <<"E", "T", "H", "-", "B", "T", "C">>

\* well-formed pairs: non-empty alphabetic base and quote
OrderPairs ==
    { ETH_BTC,
      <<"e", "t", "h", "-", "b", "t", "c">>,
      <<"E", "-", "U">>,
      <<"B", "T", "C", "D", "E", "-", "U", "S", "D", "T">>,
      <<"B", "T", "C", "D", "H", "E", "-", "U", "S", "T">> }

IdInit ==
    /\ nonce = NonceStart
    /\ id_call = [is_buy |-> FALSE, trading_pair |-> <<>>, nonce |-> NonceStart]
    /\ ids = <<>>

NewClientOrderId ==
    /\ Len(ids) < MaxCalls
    /\ \E is_buy \in BOOLEAN, trading_pair \in OrderPairs, n \in TrackingNonces :
        /\ nonce' = n
        /\ id_call' = [is_buy |-> is_buy, trading_pair |-> trading_pair, nonce |-> n]
        /\ ids' = Append(ids, get_new_client_order_id(is_buy, trading_pair, n))
    /\ UNCHANGED <<codec_vars, http_vars>>

NextIds == NewClientOrderId

----------------------------------------------------------------------------
(* Response normalizer: aiohttp_response_with_errors *)

TRUNC_LIMIT == 100  \* len(parsed_response) > 100, parsed_response[:100]

TRUNC_SUFFIX ==
    <<" ", ".", ".", ".", " ", "(", "t", "r", "u", "n", "c", "a", "t", "e", "d", ")">>

ERROR_KEY == <<"e", "r", "r", "o", "r">>

\* the accepted success codes, [200, 201]
OK_STATUS == {200, 201}

Unread == [kind |-> "unread"]
Unreturned == [kind |-> "unreturned"]
PyTuple3(a, b, c) == [kind |-> "tuple", status |-> a, body |-> b, errors |-> c]

Rep(c, n) == [i \in 1..n |-> c]

\* repr of one byte inside a bytes literal: "LF" stands for the byte 0x0A
ByteRepr(b) == IF b = "LF" THEN <<"\\", "n">> ELSE <<b>>

RECURSIVE BytesBody(_)
BytesBody(bs) == IF bs = <<>> THEN <<>> ELSE ByteRepr(Head(bs)) \o BytesBody(Tail(bs))

\* str(b) of a bytes object b: the literal b'...'
str_of_bytes(bs) == <<"b", "'">> \o BytesBody(bs) \o <<"'">>

\* lines 113-114
TruncateLong(text) ==
    IF Len(text) > TRUNC_LIMIT
    THEN SubSeq(text, 1, TRUNC_LIMIT) \o TRUNC_SUFFIX
    ELSE text

\* "error" in body: key of a dict, item of a list, substring of a str
ErrorIn(body) ==
    CASE body.kind = "dict" -> "error" \in body.keys
      [] body.kind = "list" -> "error" \in body.items
      [] body.kind = "str" ->
            \E i \in 1..Len(body.text) :
                /\ i + Len(ERROR_KEY) - 1 <= Len(body.text)
                /\ SubSeq(body.text, i, i + Len(ERROR_KEY) - 1) = ERROR_KEY
      [] OTHER -> FALSE

\* the `in` of line 118 raises TypeError on a body that is no container; the
\* `or` and the `and` before it short-circuit
TempFailureRaises(status, body) ==
    /\ body # None
    /\ status \notin OK_STATUS
    /\ body.kind \notin {"dict", "list", "str"}

temp_failure_ignores_error_key(status, body) ==
    body = None \/ status \notin OK_STATUS

temp_failure_needs_bad_status(status, body) ==
    status \notin OK_STATUS /\ (body = None \/ ~ErrorIn(body))

\* lines 117-118
TempFailure(status, body) ==
    body = None \/ (status \notin OK_STATUS /\ ~ErrorIn(body))

failure_body_kept(body, reason) == body

\* line 120
FailureBody(body, reason) == IF body = None THEN reason ELSE body

exit_leaks_on_exception(by_exception) == ~by_exception

\* `async with`: the response is released when the block is left, by its end
\* or by an exception; the value of `released` afterwards
AsyncWithExit(by_exception) == TRUE

outer_catches_client_errors_only(fault) == fault # "classify"

\* line 122: `except Exception` catches every fault of the sequence
OuterCatches(fault) == TRUE

Statuses == {200, 201, 404, 500}
Reasons == {PyStr(<<"O", "K">>), PyStr(<<"B", "a", "d">>)}

\* what response.json() delivers: a fault, or the decoded JSON value
JsonOutcomes ==
    { PyRaise("ContentTypeError"),
      None,
      PyDict({}), PyDict({"result"}), PyDict({"msg"}), PyDict({"error"}),
      PyDict({"error", "msg"}),
      PyList({}), PyList({"error"}),
      PyStr(<<"o", "k">>), PyStr(<<"a">> \o ERROR_KEY),
      PyInt(1), [kind |-> "bool", val |-> TRUE] }

\* what response.read() delivers: a fault, or the bytes of the body
RawBodies ==
    {Rep("x", n) : n \in 0..MaxRawLen}
        \cup {ERROR_KEY \o Rep("x", n) : n \in {0, MaxRawLen}}
        \cup {<<"LF">> \o Rep("x", n) : n \in {0, TRUNC_LIMIT - 5, TRUNC_LIMIT - 4}}
RawOutcomes == {PyRaise("ClientPayloadError")} \cup {[kind |-> "bytes", data |-> b] : b \in RawBodies}

HttpInit ==
    /\ pc = "idle"
    /\ resp = [status |-> None, reason |-> None, json |-> Unread, raw |-> Unread]
    /\ http_status = None
    /\ parsed_response = None
    /\ request_errors = FALSE
    /\ acquired = FALSE
    /\ released = FALSE
    /\ faults = <<>>
    /\ raised = FALSE
    /\ ret = Unreturned

\* line 103
Call ==
    /\ pc = "idle"
    /\ http_status' = None
    /\ parsed_response' = None
    /\ request_errors' = FALSE
    /\ pc' = "enter"
    /\ UNCHANGED <<resp, acquired, released, faults, raised, ret, codec_vars, id_vars>>

\* line 105: the request is awaited; it yields a response or raises
EnterWith ==
    /\ pc = "enter"
    /\ \/ \E st \in Statuses, rs \in Reasons :
            /\ resp' = [resp EXCEPT !.status = PyInt(st), !.reason = rs]
            /\ acquired' = TRUE
            /\ pc' = "status"
            /\ UNCHANGED faults
       \/ /\ faults' = Append(faults, "acquire")
          /\ pc' = "except"
          /\ UNCHANGED <<resp, acquired>>
    /\ UNCHANGED <<http_status, parsed_response, request_errors, released, raised, ret,
                   codec_vars, id_vars>>

\* line 106
ReadStatus ==
    /\ pc = "status"
    /\ \/ /\ http_status' = resp.status
          /\ pc' = "json"
          /\ UNCHANGED faults
       \/ /\ faults' = Append(faults, "status")
          /\ pc' = "unwind"
          /\ UNCHANGED http_status
    /\ UNCHANGED <<resp, parsed_response, request_errors, acquired, released, raised, ret,
                   codec_vars, id_vars>>

\* lines 107-110
ReadJson ==
    /\ pc = "json"
    /\ \E out \in JsonOutcomes :
        /\ resp' = [resp EXCEPT !.json = out]
        /\ IF out.kind = "raise"
           THEN /\ request_errors' = TRUE
                /\ faults' = Append(faults, "json")
                /\ pc' = "raw"
                /\ UNCHANGED parsed_response
           ELSE /\ parsed_response' = out
                /\ pc' = "classify"
                /\ UNCHANGED <<request_errors, faults>>
    /\ UNCHANGED <<http_status, acquired, released, raised, ret, codec_vars, id_vars>>

\* lines 111-116
ReadRaw ==
    /\ pc = "raw"
    /\ \E out \in RawOutcomes :
        /\ resp' = [resp EXCEPT !.raw = out]
        /\ IF out.kind = "raise"
           THEN /\ faults' = Append(faults, "raw")
                /\ UNCHANGED parsed_response
           ELSE /\ parsed_response' = PyStr(TruncateLong(str_of_bytes(out.data)))
                /\ UNCHANGED faults
    /\ pc' = "classify"
    /\ UNCHANGED <<http_status, request_errors, acquired, released, raised, ret,
                   codec_vars, id_vars>>

\* lines 117-121
Classify ==
    /\ pc = "classify"
    /\ IF TempFailureRaises(resp.status.val, parsed_response)
       THEN /\ faults' = Append(faults, "classify")
            /\ pc' = "unwind"
            /\ UNCHANGED <<parsed_response, request_errors>>
       ELSE /\ IF TempFailure(resp.status.val, parsed_response)
               THEN /\ parsed_response' = FailureBody(parsed_response, resp.reason)
                    /\ request_errors' = TRUE
               ELSE UNCHANGED <<parsed_response, request_errors>>
            /\ pc' = "exit"
            /\ UNCHANGED faults
    /\ UNCHANGED <<resp, http_status, acquired, released, raised, ret, codec_vars, id_vars>>

\* the end of the `async with` block is reached
ExitWith ==
    /\ pc = "exit"
    /\ released' = AsyncWithExit(FALSE)
    /\ pc' = "return"
    /\ UNCHANGED <<resp, http_status, parsed_response, request_errors, acquired, faults,
                   raised, ret, codec_vars, id_vars>>

\* an exception leaves the `async with` block
Unwind ==
    /\ pc = "unwind"
    /\ released' = AsyncWithExit(TRUE)
    /\ pc' = "except"
    /\ UNCHANGED <<resp, http_status, parsed_response, request_errors, acquired, faults,
                   raised, ret, codec_vars, id_vars>>

\* lines 122-123
Except ==
    /\ pc = "except"
    /\ IF OuterCatches(faults[Len(faults)])
       THEN /\ request_errors' = TRUE
            /\ pc' = "return"
            /\ UNCHANGED raised
       ELSE /\ raised' = TRUE
            /\ pc' = "done"
            /\ UNCHANGED request_errors
    /\ UNCHANGED <<resp, http_status, parsed_response, acquired, released, faults, ret,
                   codec_vars, id_vars>>

\* line 124
Return ==
    /\ pc = "return"
    /\ ret' = PyTuple3(http_status, parsed_response, request_errors)
    /\ pc' = "done"
    /\ UNCHANGED <<resp, http_status, parsed_response, request_errors, acquired, released,
                   faults, raised, codec_vars, id_vars>>

NextHttp ==
    \/ Call \/ EnterWith \/ ReadStatus \/ ReadJson \/ ReadRaw
    \/ Classify \/ ExitWith \/ Unwind \/ Except \/ Return

----------------------------------------------------------------------------
(* Specifications *)

Init == CodecInit /\ IdInit /\ HttpInit

Next == NextCodec \/ NextIds \/ NextHttp

Spec == Init /\ [][Next]_vars

\* one component at a time, the others at rest
SpecCodec == Init /\ [][NextCodec]_vars
InitIdleCodec == CodecIdle /\ IdInit /\ HttpInit
SpecIds == InitIdleCodec /\ [][NextIds]_vars
SpecHttp == InitIdleCodec /\ [][NextHttp]_vars

----------------------------------------------------------------------------
(* Properties of the response normalizer, under SpecHttp *)

\* C1 (as amended): an exception raised at any step is caught and never
\* reaches the caller, and the routine returns with errors = true; the result
\* is (none, none, true) exactly when the exception came from acquiring the
\* response or from reading the status, and otherwise carries the status read.
C1_FaultsAbsorbed ==
    (pc = "done" /\ faults # <<>>) =>
        /\ ~raised
        /\ ret.kind = "tuple"
        /\ ret.errors = TRUE
        /\ (ret = PyTuple3(None, None, TRUE)) <=> (faults[1] \in {"acquire", "status"})
        /\ (faults[1] \notin {"acquire", "status"}) => ret.status = resp.status

\* C1 (as stated): an exception at any step makes the routine return exactly
\* (none, none, true).
C1_AsStated ==
    (pc = "done" /\ faults # <<>>) => (~raised /\ ret = PyTuple3(None, None, TRUE))

C1_Witness ==
    /\ pc = "done"
    /\ faults = <<"classify">>
    /\ ret = PyTuple3(PyInt(500), PyInt(1), TRUE)

\* C2: with a JSON object body the routine returns (status, the body as read,
\* errors), errors being true exactly when the status is neither 200 nor 201
\* and the body has no "error" key.
C2_ObjectBodyClassified ==
    (pc = "done" /\ resp.json.kind = "dict") =>
        ret = PyTuple3(resp.status, resp.json,
                       resp.status.val \notin {200, 201} /\ "error" \notin resp.json.keys)

C2_Witness ==
    /\ pc = "done"
    /\ ret = PyTuple3(PyInt(500), PyDict({"msg"}), TRUE)

\* C3 (as amended): when the JSON read and the raw read both raise, the routine
\* returns (status, reason phrase, true).
C3_BothReadsFail ==
    (pc = "done" /\ faults = <<"json", "raw">>) =>
        ret = PyTuple3(resp.status, resp.reason, TRUE)

\* C3 (as stated): when both reads raise, the routine returns (status, none, true).
C3_AsStated ==
    (pc = "done" /\ faults = <<"json", "raw">>) =>
        ret = PyTuple3(resp.status, None, TRUE)

C3_Witness ==
    /\ pc = "done"
    /\ faults = <<"json", "raw">>
    /\ ret.body = PyStr(<<"B", "a", "d">>)

\* C8: once the response has been acquired, it is released before the routine
\* returns, on every exit path.
C8_ReleasedBeforeReturn ==
    (pc \in {"return", "done"} /\ acquired) => released

C8_Witness ==
    /\ pc = "done"
    /\ acquired
    /\ released
    /\ faults = <<"classify">>

\* C9: when the body is none at the classification (JSON null, or both reads
\* failed), the routine returns the reason phrase as the body, the status
\* read, and errors = true.
C9_ReasonSubstituted ==
    (/\ pc = "done"
     /\ \/ resp.json = None
        \/ (resp.json.kind = "raise" /\ resp.raw.kind = "raise")) =>
        /\ ret.body = resp.reason
        /\ ret.body # None
        /\ ret.status = resp.status
        /\ ret.errors = TRUE

C9_Witness ==
    /\ pc = "done"
    /\ resp.json = None
    /\ ret = PyTuple3(PyInt(200), PyStr(<<"O", "K">>), TRUE)

\* the raw body as text: each byte as the character it encodes
RawText(bs) == [i \in 1..Len(bs) |-> IF bs[i] = "LF" THEN "\n" ELSE bs[i]]

\* C10 (as stated): when the JSON read fails and the raw read succeeds, errors
\* is true and the body is the raw text, unchanged up to 100 characters and
\* otherwise its first 100 characters followed by the truncation suffix.
C10_RawTextReturned ==
    (pc = "done" /\ resp.json.kind = "raise" /\ resp.raw.kind = "bytes") =>
        LET text == RawText(resp.raw.data)
        IN ret = PyTuple3(resp.status,
                          PyStr(IF Len(text) <= 100 THEN text
                                ELSE SubSeq(text, 1, 100) \o TRUNC_SUFFIX),
                          TRUE)

----------------------------------------------------------------------------
(* Properties of the symbol codec, under SpecCodec *)

\* C4: split_trading_pair returns the two groups the pattern captures or
\* none, and never raises; convert_from_exchange_trading_pair returns none
\* exactly when the pattern does not match, and otherwise the uppercased base
\* and quote joined by "-".
C4_SplitNeverRaises ==
    LET m == SplitterMatch(codec_arg)
    IN /\ codec_op = "split" =>
            /\ codec_res.kind # "raise"
            /\ codec_res = m
       /\ codec_op = "from" =>
            /\ codec_res.kind # "raise"
            /\ (codec_res = None) <=> (m = None)
            /\ m # None =>
                  codec_res = PyStr(str_upper(m.fst) \o <<"-">> \o str_upper(m.snd))

C4_Witness ==
    /\ codec_op = "from"
    /\ codec_arg = <<"a", "-", "c">>
    /\ codec_res = None

\* the base and the quote of a canonical pair
BaseOf(pair) == str_split(pair, "-")[1]
QuoteOf(pair) == str_split(pair, "-")[2]

\* C5 (as amended): converting a canonical pair B-Q to the exchange symbol and
\* back gives B-Q exactly when the split pattern splits the symbol at the
\* original boundary, into the lowercased B and the lowercased Q.
C5_RoundTripAtBoundary ==
    codec_op = "to_from" =>
        LET b == str_lower(BaseOf(codec_arg))
            q == str_lower(QuoteOf(codec_arg))
        IN (codec_res = PyStr(codec_arg)) <=> (SplitterMatch(b \o q) = PyTuple2(b, q))

\* C5 (as stated): the round trip gives B-Q for every canonical pair.
C5_AsStated ==
    codec_op = "to_from" => codec_res = PyStr(codec_arg)

C5_Witness ==
    /\ codec_op = "to_from"
    /\ codec_arg = <<"B", "-", "A", "B">>
    /\ codec_res = PyStr(codec_arg)

----------------------------------------------------------------------------
(* Properties of the order id generator, under SpecIds *)

IsNotDigit(c) == c \notin Range(DigitChars)

\* an id without its digits
Stem(id) == SelectSeq(id, IsNotDigit)

\* C6: with a strictly increasing nonce source, no two calls return the same id.
C6_IdsUnique ==
    \A i, j \in 1..Len(ids) : i # j => ids[i] # ids[j]

C6_Witness ==
    /\ Len(ids) >= 2
    /\ Stem(ids[1]) = Stem(ids[2])

\* the id of the last call, spelled out from the call's arguments
ExpectedId ==
    LET pair == id_call.trading_pair
        k == CHOOSE i \in 1..Len(pair) : pair[i] = "-"
        base == str_upper(SubSeq(pair, 1, k - 1))
        quote == str_upper(SubSeq(pair, k + 1, Len(pair)))
        bh == IF Len(base) < 4 THEN Len(base) ELSE 4
        qh == IF Len(quote) < 2 THEN Len(quote) ELSE 2
    IN HBOT_BROKER_ID \o <<"-", IF id_call.is_buy THEN "B" ELSE "S">>
           \o SubSeq(base, 1, bh) \o <<base[Len(base)]>>
           \o SubSeq(quote, 1, qh) \o <<quote[Len(quote)]>>
           \o DecStr(id_call.nonce)

\* C7 (as amended): the id is the prefix, "-", the side, the first 4 and the
\* last character of the uppercased base, the first 2 and the last character
\* of the uppercased quote, and the nonce, shorter codes giving shorter
\* fragments; for (true, "ETH-BTC") it is {prefix}-B, ETHH, BTC and the nonce.
C7_IdFormat ==
    Len(ids) > 0 =>
        LET id == ids[Len(ids)]
        IN /\ id = ExpectedId
           /\ (id_call.is_buy /\ id_call.trading_pair = ETH_BTC) =>
                 id = HBOT_BROKER_ID \o <<"-", "B", "E", "T", "H", "H", "B", "T", "C">>
                          \o DecStr(id_call.nonce)

\* C7 (as stated): for (true, "ETH-BTC") the quote fragment is ETC.
C7_AsStated ==
    Len(ids) > 0 =>
        LET id == ids[Len(ids)]
        IN /\ id = ExpectedId
           /\ (id_call.is_buy /\ id_call.trading_pair = ETH_BTC) =>
                 id = HBOT_BROKER_ID \o <<"-", "B", "E", "T", "H", "H", "E", "T", "C">>
                          \o DecStr(id_call.nonce)

C7_Witness ==
    /\ Len(ids) > 0
    /\ id_call.is_buy
    /\ id_call.trading_pair = ETH_BTC
    /\ Stem(ids[Len(ids)]) = HBOT_BROKER_ID \o <<"-", "B", "E", "T", "H", "H", "B", "T", "C">>

============================================================================
